---- MODULE Spec2Model ----
(***************************************************************************)
(* Model of the graduation-record scripts:                                 *)
(*   data/convert_to_csv.py  - the row scan that turns spreadsheet rows    *)
(*                             into student records and writes the CSV;    *)
(*   data/validate_csv.py    - the validation report over that CSV.        *)
(*                                                                         *)
(* Text is modelled character by character: a Python str is a TLA+ string  *)
(* and upper/lower/strip/title/split/`in` are computed on its characters.  *)
(* A spreadsheet cell or a DataFrame value is an option: NaN (missing) or  *)
(* Cell(s), the text str() gives for it.                                   *)
(***************************************************************************)
EXTENDS Integers, Sequences, FiniteSets, TLC

(***************************************************************************)
(* Bounds                                                                  *)
(***************************************************************************)
\* number of spreadsheet rows the scan processes
MaxRows == 3
\* number of data rows of a CSV handed directly to the validation script
MaxCsvRows == 10

(***************************************************************************)
(* Python str operations                                                   *)
(***************************************************************************)
Chars(s) == [i \in 1..Len(s) |-> SubSeq(s, i, i)]

LowerLetters == Chars("abcdefghijklmnopqrstuvwxyz")
UpperLetters == Chars("ABCDEFGHIJKLMNOPQRSTUVWXYZ")
Digits == {"0", "1", "2", "3", "4", "5", "6", "7", "8", "9"}
Whitespace == {" ", "\t", "\n"}

\* the letters as a map to the other case
ToUpper == [c \in {LowerLetters[i] : i \in 1..26} |->
               UpperLetters[CHOOSE i \in 1..26 : LowerLetters[i] = c]]
ToLower == [c \in {UpperLetters[i] : i \in 1..26} |->
               LowerLetters[CHOOSE i \in 1..26 : UpperLetters[i] = c]]

IsLower(c) == c \in DOMAIN ToUpper
IsUpper(c) == c \in DOMAIN ToLower
IsLetter(c) == IsLower(c) \/ IsUpper(c)

UpperChar(c) == IF IsLower(c) THEN ToUpper[c] ELSE c

LowerChar(c) == IF IsUpper(c) THEN ToLower[c] ELSE c

RECURSIVE JoinChars(_)
JoinChars(cs) == IF cs = <<>> THEN "" ELSE Head(cs) \o JoinChars(Tail(cs))

\* str.upper()
Upper(s) == JoinChars([i \in 1..Len(s) |-> UpperChar(SubSeq(s, i, i))])

\* str.lower()
Lower(s) == JoinChars([i \in 1..Len(s) |-> LowerChar(SubSeq(s, i, i))])

\* str.title(): a letter is upper-cased when the character before it is not a
\* letter, lower-cased otherwise
Title(s) ==
    JoinChars([i \in 1..Len(s) |->
        IF i > 1 /\ IsLetter(SubSeq(s, i - 1, i - 1))
        THEN LowerChar(SubSeq(s, i, i))
        ELSE UpperChar(SubSeq(s, i, i))])

\* str.strip()
Strip(s) ==
    LET idx == {i \in 1..Len(s) : SubSeq(s, i, i) \notin Whitespace}
    IN  IF idx = {} THEN ""
        ELSE LET lo == CHOOSE i \in idx : \A j \in idx : i <= j
                 hi == CHOOSE i \in idx : \A j \in idx : i >= j
             IN  SubSeq(s, lo, hi)

\* sub in s
Contains(s, sub) ==
    \E i \in 1..(Len(s) - Len(sub) + 1) : SubSeq(s, i, i + Len(sub) - 1) = sub

\* str.isdigit()
IsDigit(s) == Len(s) > 0 /\ \A i \in 1..Len(s) : SubSeq(s, i, i) \in Digits

\* ' '.join(s.split()): runs of whitespace collapse to one space, none at the ends
SplitJoin(s) ==
    LET t == Strip(s)
        keep == [i \in 1..Len(t) |->
                    LET c == SubSeq(t, i, i)
                    IN  IF c \notin Whitespace THEN c
                        ELSE IF SubSeq(t, i - 1, i - 1) \in Whitespace THEN "" ELSE " "]
    IN  JoinChars(keep)

\* ' '.join(words)
RECURSIVE JoinWords(_)
JoinWords(ws) ==
    IF ws = <<>> THEN ""
    ELSE IF Len(ws) = 1 THEN ws[1]
    ELSE ws[1] \o " " \o JoinWords(Tail(ws))

\* re.match(r'^[A-Za-z\s\-\']+$', s) on a stripped string
NameRegex(s) ==
    /\ Len(s) > 0
    /\ \A i \in 1..Len(s) :
         LET c == SubSeq(s, i, i)
         IN  IsLetter(c) \/ c \in Whitespace \/ c = "-" \/ c = "'"

(***************************************************************************)
(* Cells and missing values                                                *)
(***************************************************************************)
NaN == <<>>
Cell(s) == <<s>>
isna(v) == v = NaN
\* str(v) of a value that is not missing
Str(v) == v[1]
\* Python's None for the scan's per-row results
None == <<>>

(***************************************************************************)
(* convert_to_csv.py: constants and pure functions                         *)
(***************************************************************************)
locations ==
    <<"belladrum", "georgetown", "moruca", "new amsterdam", "rose hall",
      "albouystown", "skeldon", "georgetown center", "rose hall center",
      "albouystown center", "skeldon center", "lethem", "linden",
      "mahaica", "mahaicony", "essequibo", "berbice", "demerara">>

keywords ==
    <<"ASSOCIATE DEGREE", "CERTIFICATE", "DIPLOMA", "PROGRAMME",
      "DISTANCE EDUCATION", "GRADUATE TEACHER EDUCATION">>

non_name_values == {"R", "G", "M", "F", "NAN", "NO."}

classification_values == {"CREDIT", "DISTINCTION", "PASS", "MERIT"}

is_location_header(text) ==
    IF isna(text) THEN FALSE
    ELSE LET text_lower == Strip(Lower(Str(text)))
         IN  \E i \in 1..Len(locations) : Contains(text_lower, locations[i])

is_programme_header(text) ==
    IF isna(text) THEN FALSE
    ELSE LET text_str == Strip(Upper(Str(text)))
         IN  \E i \in 1..Len(keywords) : Contains(text_str, keywords[i])

\* None, or the distance education type named in the text
extract_distance_type(programme_text) ==
    LET text_upper == Upper(programme_text)
    IN  IF Contains(text_upper, "PRIMARY") THEN Cell("Primary")
        ELSE IF Contains(text_upper, "SECONDARY") THEN Cell("Secondary")
        ELSE IF \/ Contains(text_upper, "PRE-VOCATIONAL")
                \/ Contains(text_upper, "PRE VOCATIONAL")
                \/ Contains(text_upper, "PREVOCATIONAL") THEN Cell("Pre-Vocational")
        ELSE None

clean_programme_name(programme_text) ==
    IF isna(programme_text) THEN ""
    ELSE
    LET clean == SplitJoin(Str(programme_text))
        up == Upper(clean)
    IN  IF Contains(up, "TECHNICAL") /\ Contains(up, "TEACHER")
        THEN "Associate Degree in Technical Teachers Education"
        ELSE IF Contains(up, "GRADUATE TEACHER EDUCATION")
        THEN "Associate Degree in Graduate Teacher Education"
        ELSE IF Contains(up, "SPECIAL EDUCATION") /\ Contains(up, "EARLY CHILDHOOD")
        THEN LET distance_type == extract_distance_type(clean)
                 base == "Associate Degree in Special Education - Early Childhood"
             IN  IF distance_type # None
                 THEN base \o " (" \o Str(distance_type) \o ")"
                 ELSE base
        ELSE IF Contains(up, "DISTANCE EDUCATION")
        THEN LET types ==
                     (IF Contains(up, "PRIMARY") THEN <<"Primary">> ELSE <<>>)
                  \o (IF Contains(up, "SECONDARY") THEN <<"Secondary">> ELSE <<>>)
                  \o (IF Contains(up, "PRE-VOCATIONAL") \/ Contains(up, "PRE VOCATIONAL")
                      THEN <<"Pre-Vocational">> ELSE <<>>)
                  \o (IF Contains(up, "ACADEMIC") THEN <<"Academic">> ELSE <<>>)
                 type_str == JoinWords(types)
             IN  Strip("Associate Degree in Special Education - " \o type_str)
        ELSE Strip(clean)

\* the location-header branch: the university a location cell stands for
location_university(first_col) ==
    LET titled == Title(Strip(Str(first_col)))
    IN  IF ~Contains(Lower(titled), "center") THEN titled \o " Center" ELSE titled

\* one step of the loop over the cells of a data row; acc holds last_name,
\* first_name and classification as found so far
scan_cell(acc, cell) ==
    IF isna(cell) THEN acc
    ELSE
    LET cell_str == Strip(Str(cell))
    IN  IF IsDigit(cell_str) \/ Len(cell_str) < 2 THEN acc
        ELSE IF Upper(cell_str) \in non_name_values THEN acc
        ELSE IF Upper(cell_str) \in classification_values
        THEN [acc EXCEPT !.classification = Cell(Title(cell_str))]
        ELSE IF /\ NameRegex(cell_str)
                /\ ~is_location_header(Cell(cell_str))
                /\ ~is_programme_header(Cell(cell_str))
        THEN IF acc.last_name = None THEN [acc EXCEPT !.last_name = Cell(cell_str)]
             ELSE IF acc.first_name = None THEN [acc EXCEPT !.first_name = Cell(cell_str)]
             ELSE acc
        ELSE acc

RECURSIVE scan_cells(_, _)
scan_cells(acc, cells) ==
    IF cells = <<>> THEN acc
    ELSE scan_cells(scan_cell(acc, Head(cells)), Tail(cells))

\* the search through the columns of a row, from the three results reset to None
scan_row(r) ==
    scan_cells([last_name |-> None, first_name |-> None, classification |-> None], r)

\* "Skip header rows with First Name and Last Name"
is_name_header(first, last) ==
    Upper(first) = "FIRST NAME" \/ Upper(last) = "LAST NAME"

\* student_record with the two names in scan order
student_record_swapped(first, last, university, programme, class) ==
    [Name |-> last \o " " \o first,
     SeatNo |-> "",
     University |-> university,
     Programme |-> programme,
     Classification |-> IF class # None /\ Str(class) # "" THEN Str(class) ELSE ""]

\* the dict built for a student
student_record(first, last, university, programme, class) ==
    [Name |-> first \o " " \o last,
     SeatNo |-> "",
     University |-> university,
     Programme |-> programme,
     Classification |-> IF class # None /\ Str(class) # "" THEN Str(class) ELSE ""]

\* the keys of the student dict, in insertion order, as pandas names the columns
student_keys == <<"Name", "Seat No.", "University", "Programme", "Classification">>

\* the values of a student dict in the order of its keys
student_values(st) ==
    <<st.Name, st.SeatNo, st.University, st.Programme, st.Classification>>

(***************************************************************************)
(* Inputs: the spreadsheet rows the scan may meet                          *)
(***************************************************************************)
ProgrammeRows ==
    {<<Cell("CERTIFICATE IN EDUCATION"), Cell(""), Cell("")>>,
     <<Cell(" Diploma  in Art "), NaN>>,
     <<Cell("DISTANCE EDUCATION - PRIMARY"), Cell("Smith"), Cell("John")>>}

LocationRows ==
    {<<Cell("Georgetown"), Cell("")>>,
     <<Cell("rose hall center"), NaN>>,
     <<Cell("GEORGETOWN CENTER (CPCE)"), NaN>>,
     <<Cell("Linden"), Cell("Smith"), Cell("John")>>}

DataRows ==
    {<<Cell("Smith"), Cell("John"), Cell("Credit")>>,
     <<Cell("12"), Cell("O'Neil"), Cell("F"), Cell("PASS"), Cell("Mary-Ann"), Cell("Bee")>>,
     <<Cell("Khan"), Cell(" Ali "), NaN>>,
     <<Cell("No."), Cell("Last Name"), Cell("First Name"), Cell("Classification")>>,
     <<Cell("First Name"), Cell("Last Name")>>,
     <<NaN, Cell("Singh"), Cell("Merit")>>,
     <<NaN, NaN>>}

Rows == ProgrammeRows \cup LocationRows \cup DataRows

\* what the functions above return on each row, evaluated once per row
RowFacts ==
    [r \in Rows |->
        [programme_header |-> is_programme_header(r[1]),
         location_header |-> is_location_header(r[1]),
         programme |-> clean_programme_name(r[1]),
         university |-> IF isna(r[1]) THEN "" ELSE location_university(r[1]),
         found |-> scan_row(r)]]

(***************************************************************************)
(* convert_to_csv.py: the branches of the loop body                        *)
(***************************************************************************)
\* emits_student without the test for a university
emits_student_no_university(res, university) ==
    /\ res.last_name # None /\ Str(res.last_name) # ""
    /\ res.first_name # None /\ Str(res.first_name) # ""
    /\ ~is_name_header(Str(res.first_name), Str(res.last_name))

\* "If we found both names, add the student" unless it is the name header row
\* or no university is set: the three tests before the record is built
emits_student(res, university) ==
    /\ res.last_name # None /\ Str(res.last_name) # ""
    /\ res.first_name # None /\ Str(res.first_name) # ""
    /\ ~is_name_header(Str(res.first_name), Str(res.last_name))
    /\ university # ""

\* next_programme with the programme cleared at each new location
next_programme_reset(programme, r) ==
    IF RowFacts[r].programme_header THEN RowFacts[r].programme
    ELSE IF RowFacts[r].location_header THEN ""
    ELSE programme

\* current_programme after a row: set by a programme header row only
next_programme(programme, r) ==
    IF RowFacts[r].programme_header THEN RowFacts[r].programme ELSE programme

\* current_university after a row: set by a location header row only
next_university(university, r) ==
    IF RowFacts[r].programme_header THEN university
    ELSE IF RowFacts[r].location_header THEN RowFacts[r].university
    ELSE university

\* a row that reaches the search for student data
is_data_row(r) == ~RowFacts[r].programme_header /\ ~RowFacts[r].location_header

(***************************************************************************)
(* The CSV file and pandas' writer and reader.  A file is its header line  *)
(* and its records, each a sequence of field texts; quoting of commas and  *)
(* quotes is the csv writer's and reader's own inverse pair and is not     *)
(* spelled out.  What the file cannot carry is kept: an empty DataFrame    *)
(* has no columns, and a field read back is a missing value when its text  *)
(* is one of the reader's NA markers.                                      *)
(***************************************************************************)
NoFile == [exists |-> FALSE, header |-> <<>>, records |-> <<>>]

\* pd.DataFrame(students): the columns are the keys of the dicts
DataFrame(studs) ==
    [columns |-> IF studs = <<>> THEN <<>> ELSE student_keys,
     data |-> [i \in 1..Len(studs) |-> student_values(studs[i])]]

\* students_df.to_csv(output_file, index=False, encoding='utf-8-sig')
to_csv(frame) ==
    [exists |-> TRUE, header |-> frame.columns, records |-> frame.data]

\* the reader's default NA markers
na_values ==
    {"", "#N/A", "#N/A N/A", "#NA", "-1.#IND", "-1.#QNAN", "-NaN", "-nan",
     "1.#IND", "1.#QNAN", "<NA>", "N/A", "NA", "NULL", "NaN", "None", "n/a",
     "nan", "null"}

\* a field as read_csv returns it
read_field(text) == IF text \in na_values THEN NaN ELSE Cell(text)

ColumnIndex(columns, col) == CHOOSE k \in 1..Len(columns) : columns[k] = col

\* pd.read_csv(csv_path, encoding='utf-8-sig') of a file with a header line
read_csv(file) ==
    [columns |-> file.header,
     data |-> [i \in 1..Len(file.records) |->
                 [k \in 1..Len(file.header) |-> read_field(file.records[i][k])]]]

\* pd.read_csv raises EmptyDataError on a file with no columns to parse
read_csv_raises(file) == file.header = <<>>

EmptyFrame == [columns |-> <<>>, data |-> <<>>]

\* df[col] as a sequence of values
Column(frame, col) ==
    [i \in 1..Len(frame.data) |-> frame.data[i][ColumnIndex(frame.columns, col)]]

HasColumn(frame, col) == \E k \in 1..Len(frame.columns) : frame.columns[k] = col

(***************************************************************************)
(* validate_csv.py: the checks                                             *)
(***************************************************************************)
required_cols == <<"Name", "Seat No.", "University", "Programme", "Classification">>

\* missing_required with any() for all(): fatal only when no column is there
missing_required_none(frame) ==
    ~(\E k \in 1..Len(required_cols) : HasColumn(frame, required_cols[k]))

\* not all(col in df.columns for col in required_cols)
missing_required(frame) ==
    ~(\A k \in 1..Len(required_cols) : HasColumn(frame, required_cols[k]))

\* series.isna().sum()
isna_sum(series) == Cardinality({i \in 1..Len(series) : isna(series[i])})

\* series.duplicated().sum(): the values seen before in the series; missing
\* values count as equal to each other
duplicated_sum(series) ==
    Cardinality({i \in 1..Len(series) : \E j \in 1..(i - 1) : series[j] = series[i]})

\* series.str.contains(' ', na=False).sum()
contains_space_sum(series) ==
    Cardinality({i \in 1..Len(series) :
                    ~isna(series[i]) /\ Contains(Str(series[i]), " ")})

\* the .str accessor raises AttributeError on a column that holds no string:
\* a non-empty column read with every field missing is a float column
str_accessor_raises(series) ==
    Len(series) > 0 /\ \A i \in 1..Len(series) : isna(series[i])

\* the five counts the final validation reads
quality_checks(frame) ==
    [empty_names |-> isna_sum(Column(frame, "Name")),
     duplicates |-> duplicated_sum(Column(frame, "Name")),
     names_with_space |-> contains_space_sum(Column(frame, "Name")),
     empty_uni |-> isna_sum(Column(frame, "University")),
     empty_prog |-> isna_sum(Column(frame, "Programme")),
     rows |-> Len(frame.data)]

NoChecks ==
    [empty_names |-> 0, duplicates |-> 0, names_with_space |-> 0,
     empty_uni |-> 0, empty_prog |-> 0, rows |-> 0]

\* too_few_spaces without the nine-tenths allowance
too_few_spaces_strict(c) == c.names_with_space < c.rows

\* names_with_space < len(df) * 0.9, in tenths (exact for the row counts used)
too_few_spaces(c) == c.names_with_space * 10 < c.rows * 9

\* the issues list of the final validation
final_issues(c) ==
       (IF c.empty_names > 0 THEN <<"Empty names detected">> ELSE <<>>)
    \o (IF c.duplicates > 0 THEN <<"Duplicate names detected">> ELSE <<>>)
    \o (IF too_few_spaces(c)
        THEN <<"Many names missing space (first/last separation)">> ELSE <<>>)
    \o (IF c.empty_uni > 0 THEN <<"Empty university fields">> ELSE <<>>)
    \o (IF c.empty_prog > 0 THEN <<"Empty programme fields">> ELSE <<>>)

\* the Present / MISSING line printed for each required column
column_lines(frame) ==
    [k \in 1..Len(required_cols) |->
        required_cols[k] \o ": "
            \o (IF HasColumn(frame, required_cols[k]) THEN "Present" ELSE "MISSING")]

(***************************************************************************)
(* Inputs: the CSV files the validation script may be handed               *)
(***************************************************************************)
\* the k-th fresh name with a space, and the k-th without
SpacedName(k) == UpperLetters[k] \o "ay Roe"
PlainName(k) == UpperLetters[k] \o "ayroe"

\* the kinds of record of a CSV under validation, and how many of each a
\* file may hold beside the well-formed ones
Kinds == <<"good", "nospace", "noname", "dup", "nouni", "noprog">>
KindCounts ==
    {c \in {<<g, n, e, d, u, p>> : g \in 0..MaxCsvRows, n \in 0..MaxCsvRows,
                                   e \in 0..2, d \in 0..1, u \in 0..1, p \in 0..1} :
        /\ c[1] + c[2] + c[3] + c[4] + c[5] + c[6] <= MaxCsvRows
        /\ (c[4] > 0 => c[1] > 0)}

\* the kind of the i-th record of a file with counts c: the kinds in order
KindAt(c, i) ==
    LET upto(k) == IF k = 0 THEN 0
                   ELSE IF k = 1 THEN c[1]
                   ELSE IF k = 2 THEN c[1] + c[2]
                   ELSE IF k = 3 THEN c[1] + c[2] + c[3]
                   ELSE IF k = 4 THEN c[1] + c[2] + c[3] + c[4]
                   ELSE IF k = 5 THEN c[1] + c[2] + c[3] + c[4] + c[5]
                   ELSE c[1] + c[2] + c[3] + c[4] + c[5] + c[6]
    IN  Kinds[CHOOSE k \in 1..6 : upto(k - 1) < i /\ i <= upto(k)]

KindRecord(kind, i) ==
    <<IF kind = "nospace" THEN PlainName(i)
      ELSE IF kind = "noname" THEN ""
      ELSE IF kind = "dup" THEN SpacedName(1)
      ELSE SpacedName(i),
      "",
      IF kind = "nouni" THEN "" ELSE "Linden Center",
      IF kind = "noprog" THEN "" ELSE "CERTIFICATE IN EDUCATION",
      IF i % 2 = 0 THEN "Credit" ELSE "">>

FullCsv(c) ==
    [exists |-> TRUE,
     header |-> required_cols,
     records |-> [i \in 1..(c[1] + c[2] + c[3] + c[4] + c[5] + c[6]) |->
                    KindRecord(KindAt(c, i), i)]]

\* files that lack required columns, with and without a record
PartialCsvs ==
    {[exists |-> TRUE,
      header |-> <<"Name", "Seat No.", "University", "Programme">>,
      records |-> <<>>],
     [exists |-> TRUE,
      header |-> <<"Name", "Seat No.", "University", "Programme">>,
      records |-> << <<"Ann Lee", "", "Linden Center", "CERTIFICATE IN EDUCATION">> >>],
     [exists |-> TRUE,
      header |-> <<"Seat No.", "University", "Classification">>,
      records |-> << <<"", "Linden Center", "Pass">> >>],
     [exists |-> TRUE,
      header |-> <<"Classification", "Programme", "University", "Seat No.", "Name">>,
      records |-> << <<"Pass", "DIPLOMA IN ART", "Linden Center", "", "Ann Lee">> >>],
     [exists |-> TRUE, header |-> <<>>, records |-> <<>>],
     NoFile}

CsvFiles == {FullCsv(c) : c \in KindCounts} \cup PartialCsvs

(***************************************************************************)
(* State                                                                   *)
(***************************************************************************)
VARIABLES
    pc,                  \* the statement the scripts have reached
    xl_df,               \* the spreadsheet rows iterated so far, in order
    current_programme,
    current_university,
    last_name,           \* the three results of the last search through a row
    first_name,
    classification,
    students,
    csv_file,            \* graduation_students.csv
    csv_df,              \* the frame validate_csv.py loaded
    checks,              \* its data quality counts
    issues,              \* its final issues list
    out,                 \* the lines of its report that matter
    exit_code            \* its exit status, -1 while it runs

vars == <<pc, xl_df, current_programme, current_university, last_name, first_name,
          classification, students, csv_file, csv_df, checks, issues, out, exit_code>>

convert_vars == <<xl_df, current_programme, current_university, last_name,
                  first_name, classification, students>>

validate_vars == <<csv_df, checks, issues, out, exit_code>>

\* the row of the last iteration of the loop
row == xl_df[Len(xl_df)]

InitValidate ==
    /\ csv_df = EmptyFrame
    /\ checks = NoChecks
    /\ issues = <<>>
    /\ out = <<>>
    /\ exit_code = -1

Init ==
    /\ pc = "scan"
    /\ xl_df = <<>>
    /\ current_programme = ""
    /\ current_university = ""
    /\ last_name = None
    /\ first_name = None
    /\ classification = None
    /\ students = <<>>
    /\ csv_file = NoFile
    /\ InitValidate

(***************************************************************************)
(* convert_to_csv.py                                                       *)
(***************************************************************************)
\* one iteration of "for idx, row in df.iterrows()"
ProcessRow(r) ==
    /\ pc = "scan"
    /\ Len(xl_df) < MaxRows
    /\ xl_df' = Append(xl_df, r)
    /\ current_programme' = next_programme(current_programme, r)
    /\ current_university' = next_university(current_university, r)
    /\ IF is_data_row(r)
       THEN LET res == RowFacts[r].found
            IN  /\ last_name' = res.last_name
                /\ first_name' = res.first_name
                /\ classification' = res.classification
                /\ students' =
                     IF emits_student(res, current_university)
                     THEN Append(students,
                                 student_record(Str(res.first_name), Str(res.last_name),
                                                current_university, current_programme,
                                                res.classification))
                     ELSE students
       ELSE UNCHANGED <<last_name, first_name, classification, students>>
    /\ UNCHANGED <<pc, csv_file>>
    /\ UNCHANGED validate_vars

\* the loop ends: the frame is built and written
WriteCsv ==
    /\ pc = "scan"
    /\ csv_file' = to_csv(DataFrame(students))
    /\ pc' = "written"
    /\ UNCHANGED convert_vars
    /\ UNCHANGED validate_vars

\* the summaries by location, programme and classification: students_df['University']
\* raises KeyError on a frame without columns
Summary ==
    /\ pc = "written"
    /\ pc' = IF DataFrame(students).columns = <<>> THEN "convert_error" ELSE "convert_done"
    /\ UNCHANGED csv_file
    /\ UNCHANGED convert_vars
    /\ UNCHANGED validate_vars

(***************************************************************************)
(* validate_csv.py                                                         *)
(***************************************************************************)
Exit(code) == pc' = "exit" /\ exit_code' = code

\* 1. file existence and size
FileCheck ==
    /\ pc \in {"convert_done", "convert_error", "validate"}
    /\ IF csv_file.exists
       THEN /\ out' = Append(out, "File exists")
            /\ pc' = "load"
            /\ UNCHANGED exit_code
       ELSE /\ out' = Append(out, "ERROR: File does not exist!")
            /\ Exit(1)
    /\ UNCHANGED <<csv_file, csv_df, checks, issues>>
    /\ UNCHANGED convert_vars

\* 2. load and validate CSV
LoadCsv ==
    /\ pc = "load"
    /\ IF read_csv_raises(csv_file)
       THEN /\ out' = Append(out, "ERROR loading CSV")
            /\ Exit(1)
            /\ UNCHANGED csv_df
       ELSE /\ csv_df' = read_csv(csv_file)
            /\ out' = Append(out, "CSV loaded successfully")
            /\ pc' = "columns"
            /\ UNCHANGED exit_code
    /\ UNCHANGED <<csv_file, checks, issues>>
    /\ UNCHANGED convert_vars

\* 3. column validation
ColumnValidation ==
    /\ pc = "columns"
    /\ IF missing_required(csv_df)
       THEN /\ out' = out \o column_lines(csv_df) \o <<"ERROR: Missing required columns!">>
            /\ Exit(1)
       ELSE /\ out' = out \o column_lines(csv_df)
            /\ pc' = "quality"
            /\ UNCHANGED exit_code
    /\ UNCHANGED <<csv_file, csv_df, checks, issues>>
    /\ UNCHANGED convert_vars

\* 4. data quality checks
DataQuality ==
    /\ pc = "quality"
    /\ IF str_accessor_raises(Column(csv_df, "Name"))
       THEN /\ out' = out \o <<"DATA QUALITY", "AttributeError">>
            /\ Exit(1)
            /\ UNCHANGED checks
       ELSE /\ checks' = quality_checks(csv_df)
            /\ out' = Append(out, "DATA QUALITY")
            /\ pc' = "distribution"
            /\ UNCHANGED exit_code
    /\ UNCHANGED <<csv_file, csv_df, issues>>
    /\ UNCHANGED convert_vars

\* 5. data distribution and 6. sample data
DataDistribution ==
    /\ pc = "distribution"
    /\ out' = out \o <<"DATA DISTRIBUTION", "SAMPLE DATA">>
    /\ pc' = "final"
    /\ UNCHANGED <<csv_file, csv_df, checks, issues, exit_code>>
    /\ UNCHANGED convert_vars

\* 7. final validation
FinalValidation ==
    /\ pc = "final"
    /\ issues' = final_issues(checks)
    /\ out' = out \o <<"FINAL VALIDATION RESULT">>
                  \o (IF final_issues(checks) = <<>>
                      THEN <<"ALL CHECKS PASSED">>
                      ELSE <<"ISSUES FOUND:">> \o final_issues(checks))
    /\ pc' = "exit"
    /\ exit_code' = 0
    /\ UNCHANGED <<csv_file, csv_df, checks>>
    /\ UNCHANGED convert_vars

Validate ==
    \/ FileCheck
    \/ LoadCsv
    \/ ColumnValidation
    \/ DataQuality
    \/ DataDistribution
    \/ FinalValidation

(***************************************************************************)
(* Specifications                                                          *)
(***************************************************************************)
\* the conversion of a spreadsheet, then the validation of the file it wrote
Next ==
    \/ \E r \in Rows : ProcessRow(r)
    \/ WriteCsv
    \/ Summary
    \/ Validate

Spec == Init /\ [][Next]_vars

\* the validation script run on a file of its own
InitCsv ==
    /\ pc = "validate"
    /\ xl_df = <<>>
    /\ current_programme = ""
    /\ current_university = ""
    /\ last_name = None
    /\ first_name = None
    /\ classification = None
    /\ students = <<>>
    /\ csv_file \in CsvFiles
    /\ InitValidate

NextCsv == Validate

SpecCsv == InitCsv /\ [][NextCsv]_vars

(***************************************************************************)
(* Vocabulary of the properties                                            *)
(***************************************************************************)
Last(q) == q[Len(q)]

InSeq(x, q) == \E i \in 1..Len(q) : q[i] = x

\* s ends with suffix
EndsWith(s, suffix) ==
    /\ Len(s) >= Len(suffix)
    /\ SubSeq(s, Len(s) - Len(suffix) + 1, Len(s)) = suffix

\* an iteration of the row loop
RowStep == xl_df' # xl_df

\* the iteration appended a student
Emitted == Len(students') = Len(students) + 1

\* the first cell of the most recent programme header row, NaN if none
LastProgrammeHeader(frame) ==
    LET hs == {i \in 1..Len(frame) : is_programme_header(frame[i][1])}
    IN  IF hs = {} THEN NaN
        ELSE frame[CHOOSE i \in hs : \A j \in hs : j <= i][1]

\* a name-like token: letters, spaces, hyphens and apostrophes only, at least
\* two characters, not a header, not a known non-name token, not a classification
NameLike(cell) ==
    /\ ~isna(cell)
    /\ LET t == Strip(Str(cell))
       IN  /\ Len(t) >= 2
           /\ NameRegex(t)
           /\ Upper(t) \notin non_name_values
           /\ Upper(t) \notin classification_values
           /\ ~is_location_header(Cell(t))
           /\ ~is_programme_header(Cell(t))

ClassificationToken(cell) ==
    ~isna(cell) /\ Upper(Strip(Str(cell))) \in classification_values

\* per row: its name-like tokens in cell order, and its classification
RowTokens ==
    [r \in Rows |->
        [names |-> LET ns == SelectSeq(r, NameLike)
                   IN  [i \in 1..Len(ns) |-> Strip(Str(ns[i]))],
         class |-> LET cs == SelectSeq(r, ClassificationToken)
                   IN  IF cs = <<>> THEN "" ELSE Title(Strip(Str(Last(cs))))]]

HeaderLiterals == {"FIRST NAME", "LAST NAME"}

(***************************************************************************)
(* C1 (as stated): in the row scan a record is appended for a row if and   *)
(* only if two name-like tokens were found in it and the current           *)
(* university is non-empty; otherwise nothing is appended and the scan     *)
(* goes on.                                                                *)
(***************************************************************************)
C1_EmitIffNamesAndUniversity ==
    [][RowStep =>
        /\ pc' = "scan"
        /\ (Emitted \/ students' = students)
        /\ Emitted <=> /\ is_data_row(row')
                       /\ Len(RowTokens[row'].names) >= 2
                       /\ current_university # ""]_vars

(***************************************************************************)
(* C1 (amended): a record is appended for a row if and only if two         *)
(* name-like tokens were found in it, the token taken as first name is not *)
(* "FIRST NAME" and the token taken as last name is not "LAST NAME"        *)
(* (compared in upper case), and the current university is non-empty;      *)
(* otherwise nothing is appended and the scan goes on.                     *)
(***************************************************************************)
C1_EmitIffNamesNotHeaderAndUniversity ==
    [][RowStep =>
        /\ pc' = "scan"
        /\ (Emitted \/ students' = students)
        /\ Emitted <=> /\ is_data_row(row')
                       /\ Len(RowTokens[row'].names) >= 2
                       /\ Upper(RowTokens[row'].names[2]) # "FIRST NAME"
                       /\ Upper(RowTokens[row'].names[1]) # "LAST NAME"
                       /\ current_university # ""]_vars

\* a data row with two names has emitted a record under a university, and the
\* name header row after it has not
C1_Witness ==
    /\ xl_df = <<<<Cell("Georgetown"), Cell("")>>,
                 <<Cell("Khan"), Cell(" Ali "), NaN>>,
                 <<Cell("No."), Cell("Last Name"), Cell("First Name"),
                   Cell("Classification")>>>>
    /\ Len(students) = 1
    /\ students[1].Name = "Ali Khan"

(***************************************************************************)
(* C2: the current programme is the clean_programme_name of the first cell *)
(* of the most recent programme header row, or empty if there was none;    *)
(* rows that are not programme headers leave it unchanged; a record        *)
(* appended by a row carries the current programme as its Programme.       *)
(***************************************************************************)
C2_ProgrammeContext ==
    [][RowStep =>
        /\ current_programme = clean_programme_name(LastProgrammeHeader(xl_df))
        /\ current_programme' = clean_programme_name(LastProgrammeHeader(xl_df'))
        /\ (LastProgrammeHeader(xl_df') = NaN => current_programme' = "")
        /\ (~is_programme_header(row'[1]) => current_programme' = current_programme)
        /\ (Emitted => Last(students').Programme = current_programme')]_vars

\* a programme header, then a location header, then a data row that emits
C2_Witness ==
    /\ xl_df = <<<<Cell(" Diploma  in Art "), NaN>>,
                 <<Cell("Georgetown"), Cell("")>>,
                 <<Cell("Smith"), Cell("John"), Cell("Credit")>>>>
    /\ current_programme = "Diploma in Art"
    /\ Len(students) = 1
    /\ students[1].Programme = "Diploma in Art"

(***************************************************************************)
(* C3: the current university is empty or ends with " Center", and so does *)
(* the University of every record.                                         *)
(***************************************************************************)
C3_UniversityEndsWithCenter ==
    /\ current_university = "" \/ EndsWith(current_university, " Center")
    /\ \A i \in 1..Len(students) : EndsWith(students[i].University, " Center")

(***************************************************************************)
(* C4: a record appended by a data row has as Name the row's second        *)
(* name-like token, a space, and its first name-like token; an empty       *)
(* Seat No.; the current university and programme; and the title-cased     *)
(* classification token of the row, or the empty string without one.       *)
(***************************************************************************)
C4_RecordFields ==
    [][(RowStep /\ Emitted) =>
        /\ is_data_row(row')
        /\ Len(RowTokens[row'].names) >= 2
        /\ Last(students') =
             [Name |-> RowTokens[row'].names[2] \o " " \o RowTokens[row'].names[1],
              SeatNo |-> "",
              University |-> current_university,
              Programme |-> current_programme,
              Classification |-> RowTokens[row'].class]
        /\ Last(students').Classification
             \in {"Credit", "Distinction", "Pass", "Merit", ""}]_vars

\* the example: cells Smith, John, Credit under Georgetown Center
C4_Witness ==
    /\ Len(xl_df) = 3
    /\ xl_df[2] = <<Cell("Georgetown"), Cell("")>>
    /\ xl_df[3] = <<Cell("Smith"), Cell("John"), Cell("Credit")>>
    /\ current_programme = "CERTIFICATE IN EDUCATION"
    /\ students = <<[Name |-> "John Smith", SeatNo |-> "",
                     University |-> "Georgetown Center",
                     Programme |-> "CERTIFICATE IN EDUCATION",
                     Classification |-> "Credit"]>>

(***************************************************************************)
(* C5: the CSV written has exactly the header columns Name, Seat No.,      *)
(* University, Programme, Classification, in that order.                   *)
(***************************************************************************)
C5_CsvHeader ==
    csv_file.exists =>
        csv_file.header = <<"Name", "Seat No.", "University", "Programme", "Classification">>

(***************************************************************************)
(* C7: the frame the validation script loads from the written CSV has one  *)
(* row per student, in order, with the Name, University, Programme and     *)
(* Classification strings that were written.                               *)
(***************************************************************************)
C7_RoundTrip ==
    InSeq("CSV loaded successfully", out) =>
        /\ Len(csv_df.data) = Len(students)
        /\ \A i \in 1..Len(students) :
             /\ Column(csv_df, "Name")[i] = Cell(students[i].Name)
             /\ Column(csv_df, "University")[i] = Cell(students[i].University)
             /\ Column(csv_df, "Programme")[i] = Cell(students[i].Programme)
             /\ Column(csv_df, "Classification")[i] = Cell(students[i].Classification)

(***************************************************************************)
(* C9: no record has "First Name" or "Last Name" (in any case) as one of   *)
(* the two parts of its Name.                                              *)
(***************************************************************************)
C9_NoHeaderNames ==
    \A i \in 1..Len(students) :
        \A h \in HeaderLiterals :
            LET name == Upper(students[i].Name)
            IN  /\ ~EndsWith(name, " " \o h)
                /\ ~(Len(name) > Len(h) /\ SubSeq(name, 1, Len(h) + 1) = h \o " ")

(***************************************************************************)
(* C10: every record has a non-empty Programme, and the validation of the  *)
(* written file never lists "Empty programme fields".                      *)
(***************************************************************************)
C10_ProgrammeNonEmpty ==
    /\ \A i \in 1..Len(students) : students[i].Programme # ""
    /\ ~InSeq("Empty programme fields", issues)

(***************************************************************************)
(* Vocabulary of the validation properties: the checks read off the loaded *)
(* frame row by row                                                        *)
(***************************************************************************)
Loaded == InSeq("CSV loaded successfully", out)

\* the required columns the file under validation lacks
MissingColumns ==
    {required_cols[k] : k \in 1..Len(required_cols)}
        \ {csv_file.header[k] : k \in 1..Len(csv_file.header)}

\* the final summary has been printed
Summarised == pc = "exit" /\ exit_code = 0

Passed == InSeq("ALL CHECKS PASSED", out)

NameAt(i) == Column(csv_df, "Name")[i]

NRows == Len(csv_df.data)

AnyEmptyName == \E i \in 1..NRows : isna(NameAt(i))

\* two rows with the same Name; missing names are equal to each other
AnyDuplicateName == \E i, j \in 1..NRows : i < j /\ NameAt(i) = NameAt(j)

HasSpace(i) == ~isna(NameAt(i)) /\ Contains(Str(NameAt(i)), " ")

AnyNameWithoutSpace == \E i \in 1..NRows : ~isna(NameAt(i)) /\ ~HasSpace(i)

\* fewer than nine tenths of the rows have a name with a space
UnderNineTenthsSpaced == 10 * Cardinality({i \in 1..NRows : HasSpace(i)}) < 9 * NRows

AnyEmptyUniversity == \E i \in 1..NRows : isna(Column(csv_df, "University")[i])

AnyEmptyProgramme == \E i \in 1..NRows : isna(Column(csv_df, "Programme")[i])

ReportSections ==
    {"DATA QUALITY", "DATA DISTRIBUTION", "SAMPLE DATA", "FINAL VALIDATION RESULT",
     "ALL CHECKS PASSED", "ISSUES FOUND:"}

(***************************************************************************)
(* C6: when the loaded CSV lacks a required column, the script reports     *)
(* each missing column and exits with status 1 at the column validation:   *)
(* no data quality check, distribution report or final summary runs.       *)
(***************************************************************************)
C6_MissingColumnFatal ==
    (Loaded /\ MissingColumns # {}) =>
        /\ pc \in {"columns", "exit"}
        /\ \A i \in 1..Len(out) : out[i] \notin ReportSections
        /\ checks = NoChecks /\ issues = <<>>
        /\ pc = "exit" =>
             /\ exit_code = 1
             /\ Last(out) = "ERROR: Missing required columns!"
             /\ \A col \in MissingColumns : InSeq(col \o ": MISSING", out)

\* the example: a file without the Classification column has been rejected
C6_Witness ==
    /\ csv_file.header = <<"Name", "Seat No.", "University", "Programme">>
    /\ Len(csv_file.records) = 1
    /\ pc = "exit"
    /\ exit_code = 1
    /\ InSeq("Classification: MISSING", out)

====
